---- MODULE Spec2Model ----
(***************************************************************************)
(* MQTT Voyager: the message history (MessageHistory, a SQLite table), the *)
(* topic tree (TopicTree), the broker service (MqttService) and the main   *)
(* process' 'message' listener that feeds a delivered message to both.     *)
(*                                                                         *)
(* Strings the code inspects character by character (topics and topic     *)
(* filters) are sequences of one-character strings: "a/b" is               *)
(* <<"a","/","b">>.  An optional value is a sequence of length 0 or 1:     *)
(* None is JavaScript's undefined (the field is not there), Some(x) a      *)
(* field holding x.                                                        *)
(***************************************************************************)
EXTENDS Integers, Sequences, FiniteSets, TLC

VARIABLES
  client,             \* MqttService.client: NoClient or the id of a client
  clients,            \* the mqtt.js clients created so far, by id
  config,             \* MqttService.config's id
  status,             \* MqttService.status
  isManualDisconnect, \* MqttService.isManualDisconnect
  reconnectAttempts,  \* MqttService.reconnectAttempts
  pendingEnd,         \* client.end() calls whose callback has not run yet
  subscriptions,      \* MqttService.subscriptions: the topics subscribed to
  rows,               \* the messages table of MessageHistory, in rowid order
  root,               \* TopicTree.root
  mainWindow,         \* TRUE while mainWindow is set and not destroyed
  trace,              \* what the 'message' listener did, in order
  delivered,          \* the messages the clients delivered, in order
  nextId,             \* source of the unique message ids
  searchFilter,       \* the filter of the last searchMessages call
  searchResult,       \* what that call returned
  matchPattern,       \* the pattern of the last getMatchingTopics call
  matchResult,        \* what that call returned
  exported,           \* the filter and the text of the last exportAsJSON call
  retention,          \* the renderer's retention check: its cutoff, once computed
  replay              \* the renderer's MessageReplay component

vars == <<client, clients, config, status, isManualDisconnect, reconnectAttempts, pendingEnd,
          subscriptions, rows, root, mainWindow, trace, delivered, nextId,
          searchFilter, searchResult, matchPattern, matchResult, exported,
          retention, replay>>

serviceVars == <<client, clients, config, status, isManualDisconnect, reconnectAttempts, pendingEnd,
                 subscriptions>>
queryVars == <<searchFilter, searchResult, matchPattern, matchResult, exported>>

----------------------------------------------------------------------------
(* Bounds of the model. *)

\* rows a run stores when it explores the store's queries
MaxRows == 2
\* largest value Date.now() takes
MaxTime == 2
\* messages the clients deliver in a run of the connection life cycle
MaxDeliveries == 2
\* mqtt.js clients a run creates
MaxClients == 2
\* end() callbacks that are outstanding at one time
MaxPending == 1
\* playNextMessage chains (publishes in flight and pending timeouts) of
\* MessageReplay at one time
MaxChains == 2

----------------------------------------------------------------------------
(* Optional values, JavaScript truthiness. *)

None == <<>>
Some(x) == <<x>>
IsSome(o) == o # <<>>
Get(o) == o[1]

\* if (x) for an optional number: undefined and 0 are falsy
TruthyNumber(o) == IsSome(o) /\ Get(o) # 0
\* if (x) for an optional string: undefined and '' are falsy
TruthyString(o) == IsSome(o) /\ Get(o) # <<>>

\* connectionId / connection_id: a connection id, JavaScript's undefined,
\* or null (SQL NULL read back)
Undefined == "undefined"
Null == "null"
\* x || null, for a connection id (ids are never the empty string)
OrNull(x) == IF x = Undefined THEN Null ELSE x

Min(a, b) == IF a <= b THEN a ELSE b

RECURSIVE Concat(_)
\* the concatenation of a sequence of sequences
Concat(ss) == IF ss = <<>> THEN <<>> ELSE Head(ss) \o Concat(Tail(ss))

----------------------------------------------------------------------------
(* Strings. *)

RECURSIVE SplitAcc(_, _, _)
SplitAcc(s, i, cur) ==
  IF i > Len(s) THEN <<cur>>
  ELSE IF s[i] = "/" THEN <<cur>> \o SplitAcc(s, i + 1, <<>>)
  ELSE SplitAcc(s, i + 1, Append(cur, s[i]))

\* s.split('/')
Split(s) == SplitAcc(s, 1, <<>>)

\* if (x) for an optional text (a payload search): undefined and '' are falsy
TruthyText(o) == IsSome(o) /\ Get(o) # ""

\* s.includes(c)
Includes(s, c) == \E i \in 1..Len(s) : s[i] = c

\* s.replace(/\+/g, '%').replace(/#/g, '%')
ReplaceWildcards(s) ==
  [i \in 1..Len(s) |-> IF s[i] = "+" \/ s[i] = "#" THEN "%" ELSE s[i]]

\* SQLite's LIKE compares ASCII letters without regard to case
Lower(c) ==
  CASE c = "A" -> "a"
    [] c = "B" -> "b"
    [] c = "C" -> "c"
    [] OTHER -> c

RECURSIVE Like(_, _)
\* s LIKE p in SQLite: % is any run of characters, _ any one character
Like(p, s) ==
  IF p = <<>> THEN s = <<>>
  ELSE IF Head(p) = "%" THEN Like(Tail(p), s) \/ (s # <<>> /\ Like(p, Tail(s)))
  ELSE IF s = <<>> THEN FALSE
  ELSE (Head(p) = "_" \/ Lower(Head(p)) = Lower(Head(s))) /\ Like(Tail(p), Tail(s))

----------------------------------------------------------------------------
(* MessageHistory: the messages table and its queries. *)

\* a row of the messages table, as INSERT writes it from an MqttMessage
MessageToRow(message) ==
  [id |-> message.id,
   topic |-> message.topic,
   payload |-> message.payload,
   qos |-> message.qos,
   retained |-> IF message.retained THEN 1 ELSE 0,
   timestamp |-> message.timestamp,
   connection_id |-> OrNull(message.connectionId)]

\* RowToMessage with retained compared to true, which no INTEGER column is
RowToMessageStrictTrue(row) ==
  [id |-> row.id,
   topic |-> row.topic,
   payload |-> row.payload,
   qos |-> row.qos,
   retained |-> FALSE,
   timestamp |-> row.timestamp,
   connectionId |-> row.connection_id]

\* the MqttMessage searchMessages and getRecentMessages build from a row
RowToMessage(row) ==
  [id |-> row.id,
   topic |-> row.topic,
   payload |-> row.payload,
   qos |-> row.qos,
   retained |-> (row.retained = 1),
   timestamp |-> row.timestamp,
   connectionId |-> row.connection_id]

\* id is the PRIMARY KEY: the INSERT of a second row with the same id throws
InsertFails(table, message) == \E i \in 1..Len(table) : table[i].id = message.id

\* addMessage: the INSERT, and the catch that logs and drops its failure
MessageHistory_addMessage(table, message) ==
  IF InsertFails(table, message) THEN table
  ELSE Append(table, MessageToRow(message))

\* a MessageFilter: every field optional
EmptyFilter ==
  [topic |-> None, payloadSearch |-> None, startTime |-> None, endTime |-> None,
   qos |-> None, retained |-> None, limit |-> None, offset |-> None,
   connectionId |-> None]

\* the topic condition of searchMessages: LIKE for a filter holding + or #,
\* equality for any other
TopicCondition(filter, row) ==
  IF ~TruthyString(filter.topic) THEN TRUE
  ELSE IF Includes(Get(filter.topic), "+") \/ Includes(Get(filter.topic), "#")
       THEN Like(ReplaceWildcards(Get(filter.topic)), row.topic)
       ELSE row.topic = Get(filter.topic)

\* the time, qos and retained conditions of searchMessages
FieldConditions(filter, row) ==
  /\ TruthyNumber(filter.startTime) => row.timestamp >= Get(filter.startTime)
  /\ TruthyNumber(filter.endTime) => row.timestamp <= Get(filter.endTime)
  /\ IsSome(filter.qos) => row.qos = Get(filter.qos)
  /\ IsSome(filter.retained) => row.retained = (IF Get(filter.retained) THEN 1 ELSE 0)

\* a full-text expression FTS5 rejects (an unbalanced quote)
BadFtsQuery == "\""

\* messages_fts MATCH ?: the payload, as text, holds the token searched for
FtsMatch(filter, row) ==
  TruthyText(filter.payloadSearch) =>
    \E i \in 1..Len(row.payload) : row.payload[i] = Get(filter.payloadSearch)

\* the WHERE clause searchMessages builds
RowSelected(filter, row) ==
  /\ FtsMatch(filter, row)
  /\ TopicCondition(filter, row)
  /\ FieldConditions(filter, row)

\* db.prepare / stmt.all throw: OFFSET without LIMIT is no SQL, and FTS5
\* rejects a malformed expression
QueryThrows(filter) ==
  \/ TruthyNumber(filter.offset) /\ ~TruthyNumber(filter.limit)
  \/ TruthyText(filter.payloadSearch) /\ Get(filter.payloadSearch) = BadFtsQuery

\* OrderByTimestampDesc with the ordering left out: the rows in any order
OrderUnspecified(table, selected) ==
  LET n == Cardinality(selected) IN
  {f \in [1..n -> selected] : \A j, k \in 1..n : j # k => f[j] # f[k]}

\* OrderByTimestampDesc over a join that yields a row more than once
OrderWithRepeats(table, selected) ==
  LET n == Cardinality(selected) IN
  {f \in [1..n -> selected] :
     \A k \in 1..(n - 1) : table[f[k]].timestamp >= table[f[k + 1]].timestamp}

\* ORDER BY timestamp DESC over the selected rows: every order of the rows
\* (as positions of the table) that SQLite may produce, ties in any order
OrderByTimestampDesc(table, selected) ==
  LET n == Cardinality(selected) IN
  {f \in [1..n -> selected] :
     /\ \A j, k \in 1..n : j # k => f[j] # f[k]
     /\ \A k \in 1..(n - 1) : table[f[k]].timestamp >= table[f[k + 1]].timestamp}

\* LIMIT ? OFFSET ? (each only when the filter's number is truthy)
LimitOffset(filter, ordered) ==
  LET skip == IF TruthyNumber(filter.offset) THEN Get(filter.offset) ELSE 0
      last == IF TruthyNumber(filter.limit)
              THEN Min(Len(ordered), skip + Get(filter.limit))
              ELSE Len(ordered)
  IN SubSeq(ordered, skip + 1, last)

\* searchMessages(filter): the arrays the call may return
MessageHistory_searchMessages(table, filter) ==
  IF QueryThrows(filter) THEN {<<>>}
  ELSE
    LET selected == {i \in 1..Len(table) : RowSelected(filter, table[i])} IN
    {LimitOffset(filter, [k \in 1..Len(f) |-> RowToMessage(table[f[k]])]) :
       f \in OrderByTimestampDesc(table, selected)}

\* a text with every character passed as it is
JsonEscapeNothing(s) == s

RECURSIVE JsonEscape(_)
\* the characters of a string as JSON.stringify writes them: a backslash
\* before '"' and before a backslash
JsonEscape(s) ==
  IF s = <<>> THEN <<>>
  ELSE (IF Head(s) = "\"" \/ Head(s) = "\\" THEN <<"\\", Head(s)>> ELSE <<Head(s)>>)
         \o JsonEscape(Tail(s))

\* JSON.stringify of a string
JsonString(s) == <<"\"">> \o JsonEscape(s) \o <<"\"">>

Digits == <<"0", "1", "2", "3", "4", "5", "6", "7", "8", "9">>

RECURSIVE JsonNumber(_)
\* JSON.stringify of a non-negative integer: its decimal digits
JsonNumber(n) ==
  IF n < 10 THEN <<Digits[n + 1]>>
  ELSE JsonNumber(n \div 10) \o <<Digits[(n % 10) + 1]>>

\* JSON.stringify of a boolean
JsonBoolean(b) ==
  IF b THEN <<"t", "r", "u", "e">> ELSE <<"f", "a", "l", "s", "e">>

\* new Date(t).toISOString() for a time within the first second of the epoch
ToISOString(t) ==
  <<"1", "9", "7", "0", "-", "0", "1", "-", "0", "1", "T",
    "0", "0", ":", "0", "0", ":", "0", "0", ".">>
    \o <<Digits[((t \div 100) % 10) + 1], Digits[((t \div 10) % 10) + 1],
         Digits[(t % 10) + 1], "Z">>

RECURSIVE JoinWith(_, _)
\* parts.join(sep)
JoinWith(parts, sep) ==
  IF parts = <<>> THEN <<>>
  ELSE IF Len(parts) = 1 THEN parts[1]
  ELSE parts[1] \o sep \o JoinWith(Tail(parts), sep)

\* payload.toString('utf-8'): the payload's tokens, a blank between them
PayloadText(payload) ==
  JoinWith([k \in 1..Len(payload) |-> <<payload[k]>>], <<" ">>)

\* the object exportAsJSON makes of a message, as its members in order: key
\* and JSON text of the value (the id is a string)
ExportData(msg) ==
  <<<<<<"i", "d">>, JsonString(JsonNumber(msg.id))>>,
    <<<<"t", "o", "p", "i", "c">>, JsonString(msg.topic)>>,
    <<<<"p", "a", "y", "l", "o", "a", "d">>, JsonString(PayloadText(msg.payload))>>,
    <<<<"q", "o", "s">>, JsonNumber(msg.qos)>>,
    <<<<"r", "e", "t", "a", "i", "n", "e", "d">>, JsonBoolean(msg.retained)>>,
    <<<<"t", "i", "m", "e", "s", "t", "a", "m", "p">>, JsonNumber(msg.timestamp)>>,
    <<<<"d", "a", "t", "e", "t", "i", "m", "e">>, JsonString(ToISOString(msg.timestamp))>>>>

\* JSON.stringify(object, null, 2) of such an object inside an array: the
\* members on lines of their own, four blanks before each
JsonObject(members) ==
  <<" ", " ", "{", "\n">>
    \o JoinWith([k \in 1..Len(members) |->
                   <<" ", " ", " ", " ">> \o JsonString(members[k][1])
                     \o <<":", " ">> \o members[k][2]],
                <<",", "\n">>)
    \o <<"\n", " ", " ", "}">>

\* JSON.stringify(array, null, 2)
JsonArray(objects) ==
  IF objects = <<>> THEN <<"[", "]">>
  ELSE <<"[", "\n">> \o JoinWith(objects, <<",", "\n">>) \o <<"\n", "]">>

\* exportAsJSON(filter): the texts the call may return
MessageHistory_exportAsJSON(table, filter) ==
  {JsonArray([k \in 1..Len(messages) |-> JsonObject(ExportData(messages[k]))]) :
     messages \in MessageHistory_searchMessages(table, filter)}

\* clearOlderThan returning the count it logs
ClearOlderThanReturnsChanges(changes) == Some(changes)

\* what clearOlderThan returns (it is declared void): result.changes goes to
\* the log only, the caller gets undefined
ClearOlderThanReturns(changes) == None

\* clearAll: DELETE FROM messages
MessageHistory_clearAll(table) == <<>>

\* clearOlderThan with <= for <
ClearOlderOrEqual(table, timestamp) ==
  SelectSeq(table, LAMBDA row : ~(row.timestamp <= timestamp))

\* clearOlderThan(timestamp): DELETE FROM messages WHERE timestamp < ?
MessageHistory_clearOlderThan(table, timestamp) ==
  SelectSeq(table, LAMBDA row : ~(row.timestamp < timestamp))

\* getStatistics: COUNT(*) and COUNT(DISTINCT topic) of the table (the rates
\* and volumes of the record are left out)
MessageHistory_getStatistics(table) ==
  [totalMessages |-> Len(table),
   topicCount |-> Cardinality({table[i].topic : i \in 1..Len(table)})]

----------------------------------------------------------------------------
(* TopicTree.  A Map<string, TopicNode> is the sequence of its nodes in     *)
(* insertion order (the order forEach and values() visit them in); no two   *)
(* nodes of one map have the same name.                                     *)

\* currentLevel.get(part): the position of the node named part, 0 for none
IndexOf(level, part) ==
  IF \E i \in 1..Len(level) : level[i].name = part
  THEN CHOOSE i \in 1..Len(level) : level[i].name = part
  ELSE 0

\* the node addMessage creates when a level has none of that name
NewNode(part, fullPath) ==
  [name |-> part, fullPath |-> fullPath, children |-> <<>>,
   messageCount |-> 0, subscribed |-> FALSE, lastMessage |-> None]

RECURSIVE AddMessageAt(_, _, _, _, _)
\* one round of addMessage's loop, at parts[i], with the rounds below it
AddMessageAt(level, parts, i, prevPath, message) ==
  LET part == parts[i]
      fullPath == IF prevPath # <<>> THEN prevPath \o <<"/">> \o part ELSE part
      at == IndexOf(level, part)
      found == IF at = 0 THEN NewNode(part, fullPath) ELSE level[at]
      counted == IF i = Len(parts)
                 THEN [found EXCEPT !.messageCount = @ + 1,
                                    !.lastMessage = Some(message)]
                 ELSE found
      node == IF i = Len(parts) THEN counted
              ELSE [counted EXCEPT !.children =
                      AddMessageAt(counted.children, parts, i + 1, fullPath, message)]
  IN IF at = 0 THEN Append(level, node) ELSE [level EXCEPT ![at] = node]

\* TopicTree.addMessage(message)
TopicTree_addMessage(tree, message) ==
  AddMessageAt(tree, Split(message.topic), 1, <<>>, message)

RECURSIVE traverseAll(_)
\* getMatchingTopics' traverseAll: the node and everything beneath it
traverseAll(node) ==
  <<node.fullPath>>
    \o Concat([k \in 1..Len(node.children) |-> traverseAll(node.children[k])])

\* patternParts[depth] past the end of the array
NoPart == <<"undefined">>

RECURSIVE traverse(_, _, _)
\* getMatchingTopics' traverse (depth counts from 1 here)
traverse(node, depth, patternParts) ==
  LET patternPart == IF depth <= Len(patternParts) THEN patternParts[depth] ELSE NoPart
      matched ==
        IF patternPart = node.name \/ patternPart = <<"+">>
        THEN IF depth = Len(patternParts)
             THEN <<node.fullPath>>
             ELSE Concat([k \in 1..Len(node.children) |->
                            traverse(node.children[k], depth + 1, patternParts)])
        ELSE <<>>
      multi ==
        IF patternPart = <<"#">>
        THEN <<node.fullPath>>
               \o Concat([k \in 1..Len(node.children) |-> traverseAll(node.children[k])])
        ELSE <<>>
  IN matched \o multi

\* TopicTree.getMatchingTopics(pattern)
TopicTree_getMatchingTopics(tree, pattern) ==
  Concat([k \in 1..Len(tree) |-> traverse(tree[k], 1, Split(pattern))])

RECURSIVE FindNodeAt(_, _, _)
\* one round of findNode's loop, at parts[i]: None for null
FindNodeAt(level, parts, i) ==
  LET at == IndexOf(level, parts[i]) IN
  IF at = 0 THEN None
  ELSE IF i = Len(parts) THEN Some(level[at])
  ELSE FindNodeAt(level[at].children, parts, i + 1)

\* TopicTree.findNode(topic)
TopicTree_findNode(tree, topic) == FindNodeAt(tree, Split(topic), 1)

RECURSIVE MarkAt(_, _, _, _)
\* node.subscribed = subscribed on the node findNode reaches, if it reaches one
MarkAt(level, parts, i, subscribed) ==
  LET at == IndexOf(level, parts[i]) IN
  IF at = 0 THEN level
  ELSE IF i = Len(parts) THEN [level EXCEPT ![at].subscribed = subscribed]
  ELSE [level EXCEPT ![at].children = MarkAt(@, parts, i + 1, subscribed)]

\* TopicTree.markSubscribed(topic, subscribed)
TopicTree_markSubscribed(tree, topic, subscribed) ==
  MarkAt(tree, Split(topic), 1, subscribed)

\* clear() that leaves the tree as it is
TopicTreeNotCleared(tree) == tree

\* TopicTree.clear()
TopicTree_clear(tree) == <<>>

RECURSIVE NodesOf(_)
\* every node of a level and beneath it
NodesOf(level) ==
  UNION {{level[k]} \cup NodesOf(level[k].children) : k \in 1..Len(level)}

----------------------------------------------------------------------------
(* The main process' listener on mqttService's 'message' event. *)

\* what a call of messageHistory.addMessage leaves behind for its caller and
\* in the log: the call itself, and console.error from the catch when the
\* INSERT threw; nothing is thrown on and no 'error' event is emitted
AddMessageTrace(table, message) ==
  <<[op |-> "addMessage", message |-> message]>>
    \o (IF InsertFails(table, message)
        THEN <<[op |-> "console.error", message |-> message]>>
        ELSE <<>>)

\* MessageListener with an addMessage that lets the INSERT's exception out:
\* the listener ends there
MessageListenerAppendThrows(st, message, window) ==
  LET appended == [st EXCEPT
                     !.rows = MessageHistory_addMessage(st.rows, message),
                     !.trace = st.trace \o AddMessageTrace(st.rows, message)]
      absorbed == [appended EXCEPT
                     !.root = TopicTree_addMessage(appended.root, message),
                     !.trace = Append(appended.trace,
                                      [op |-> "topicTree.addMessage", message |-> message])]
  IN IF InsertFails(st.rows, message) THEN appended
     ELSE IF window
     THEN [absorbed EXCEPT
             !.trace = absorbed.trace
                         \o <<[op |-> "MQTT_MESSAGE", message |-> message],
                              [op |-> "TOPIC_TREE_UPDATED", message |-> message]>>]
     ELSE absorbed

\* MessageListener with the tree updated inside the block that tells the
\* renderer, so only while there is a window
MessageListenerTreeInWindowBlock(st, message, window) ==
  LET appended == [st EXCEPT
                     !.rows = MessageHistory_addMessage(st.rows, message),
                     !.trace = st.trace \o AddMessageTrace(st.rows, message)]
  IN IF window
     THEN [appended EXCEPT
             !.root = TopicTree_addMessage(appended.root, message),
             !.trace = appended.trace
                         \o <<[op |-> "topicTree.addMessage", message |-> message],
                              [op |-> "MQTT_MESSAGE", message |-> message],
                              [op |-> "TOPIC_TREE_UPDATED", message |-> message]>>]
     ELSE appended

\* MessageListener telling the renderer before it updates the tree
MessageListenerNotifyFirst(st, message, window) ==
  LET appended == [st EXCEPT
                     !.rows = MessageHistory_addMessage(st.rows, message),
                     !.trace = st.trace \o AddMessageTrace(st.rows, message)]
      told == IF window
              THEN [appended EXCEPT
                      !.trace = appended.trace
                                  \o <<[op |-> "MQTT_MESSAGE", message |-> message],
                                       [op |-> "TOPIC_TREE_UPDATED", message |-> message]>>]
              ELSE appended
  IN [told EXCEPT
        !.root = TopicTree_addMessage(told.root, message),
        !.trace = Append(told.trace, [op |-> "topicTree.addMessage", message |-> message])]

\* what the listener does with a message, in the order it does it: st holds
\* the table, the tree and the trace before, window whether mainWindow is
\* there and not destroyed
MessageListener(st, message, window) ==
  LET appended == [st EXCEPT
                     !.rows = MessageHistory_addMessage(st.rows, message),
                     !.trace = st.trace \o AddMessageTrace(st.rows, message)]
      absorbed == [appended EXCEPT
                     !.root = TopicTree_addMessage(appended.root, message),
                     !.trace = Append(appended.trace,
                                      [op |-> "topicTree.addMessage", message |-> message])]
  IN IF window
     THEN [absorbed EXCEPT
             !.trace = absorbed.trace
                         \o <<[op |-> "MQTT_MESSAGE", message |-> message],
                              [op |-> "TOPIC_TREE_UPDATED", message |-> message]>>]
     ELSE absorbed

----------------------------------------------------------------------------
(* MqttService.  A client is a record: connected is mqtt.js' client.connected, *)
(* handlers whether the service's six handlers are attached to it, ended       *)
(* whether end() was called on it.                                             *)

NoClient == 0

\* MessageReplay as it is mounted: no messages loaded, nothing playing.
\* messages is messages.length, index currentIndexRef (currentIndex is set
\* with it), timer whether the timeout playIntervalRef names is pending,
\* orphans the pending timeouts playIntervalRef no longer names, inFlight
\* the indexes of the playNextMessage calls that wait for their publish.
\* halted says that the user, or publishMessage after a failure, called
\* pauseReplay or stopReplay since the last startReplay; publishedAfterHalt
\* and scheduledAfterHalt say what was started since that call
NoReplay ==
  [messages |-> 0, isPlaying |-> FALSE, index |-> 0, timer |-> FALSE,
   orphans |-> 0, inFlight |-> <<>>, halted |-> FALSE,
   publishedAfterHalt |-> FALSE, scheduledAfterHalt |-> FALSE]

maxReconnectAttempts == 10

\* the MqttMessage onMessage builds
NewMessage(id, topic, payload, qos, retain, now, configId) ==
  [id |-> id, topic |-> topic, payload |-> payload, qos |-> qos,
   retained |-> retain, timestamp |-> now, connectionId |-> configId]

\* the part of connect() after the await: a new client with the handlers on it
StartClient(configId) ==
  /\ config' = configId
  /\ status' = "connecting"
  /\ isManualDisconnect' = FALSE
  /\ reconnectAttempts' = 0
  /\ clients' = Append(clients, [connected |-> FALSE, handlers |-> TRUE, ended |-> FALSE])
  /\ client' = Len(clients) + 1

\* disconnect() with a client: the handlers come off, end() is called, and
\* the caller waits for end's callback; then says what the caller does next
\* (None: disconnect() was the call; Some(id): connect() goes on)
BeginDisconnect(then) ==
  /\ client # NoClient
  /\ Len(pendingEnd) < MaxPending
  /\ isManualDisconnect' = TRUE
  /\ clients' = [clients EXCEPT ![client] =
                   [connected |-> FALSE, handlers |-> FALSE, ended |-> TRUE]]
  /\ pendingEnd' = Append(pendingEnd, [client |-> client, then |-> then])
  /\ UNCHANGED <<client, config, status, reconnectAttempts, subscriptions>>

\* connect() calls waiting for an end callback
WaitingConnects == {k \in 1..Len(pendingEnd) : IsSome(pendingEnd[k].then)}

\* Connect that also empties the table
ConnectClearsHistory(configId) ==
  /\ Len(clients) + Cardinality(WaitingConnects) < MaxClients
  /\ IF client # NoClient
     THEN BeginDisconnect(Some(configId))
     ELSE StartClient(configId) /\ UNCHANGED <<pendingEnd, subscriptions>>
  /\ rows' = <<>>
  /\ UNCHANGED <<root, mainWindow, trace, delivered, nextId, queryVars, retention, replay>>

\* MqttService.connect(config), up to its first await or to its end
Connect(configId) ==
  /\ Len(clients) + Cardinality(WaitingConnects) < MaxClients
  /\ IF client # NoClient
     THEN BeginDisconnect(Some(configId))
     ELSE StartClient(configId) /\ UNCHANGED <<pendingEnd, subscriptions>>
  /\ UNCHANGED <<rows, root, mainWindow, trace, delivered, nextId, queryVars, retention, replay>>

\* MqttService.disconnect()
Disconnect ==
  /\ IF client # NoClient
     THEN BeginDisconnect(None)
     ELSE /\ status' = "disconnected"
          /\ UNCHANGED <<client, clients, config, isManualDisconnect,
                         reconnectAttempts, pendingEnd, subscriptions>>
  /\ UNCHANGED <<rows, root, mainWindow, trace, delivered, nextId, queryVars, retention, replay>>

\* the callback of client.end(), and the connect() that awaited it
EndCallback(k) ==
  /\ k \in 1..Len(pendingEnd)
  /\ pendingEnd' = [j \in 1..(Len(pendingEnd) - 1) |->
                      IF j < k THEN pendingEnd[j] ELSE pendingEnd[j + 1]]
  /\ subscriptions' = {}
  /\ IF IsSome(pendingEnd[k].then)
     THEN StartClient(Get(pendingEnd[k].then))
     ELSE /\ client' = NoClient
          /\ status' = "disconnected"
          /\ isManualDisconnect' = FALSE
          /\ UNCHANGED <<clients, config, reconnectAttempts>>
  /\ UNCHANGED <<rows, root, mainWindow, trace, delivered, nextId, queryVars, retention, replay>>

\* a client whose handlers the service still listens to
Listening(c) == c \in 1..Len(clients) /\ clients[c].handlers

\* onConnect
OnConnect(c) ==
  /\ Listening(c) /\ ~clients[c].connected /\ ~clients[c].ended
  /\ clients' = [clients EXCEPT ![c].connected = TRUE]
  /\ status' = "connected"
  /\ reconnectAttempts' = 0
  /\ UNCHANGED <<client, config, isManualDisconnect, pendingEnd, subscriptions>>
  /\ UNCHANGED <<rows, root, mainWindow, trace, delivered, nextId, queryVars, retention, replay>>

\* onClose
OnClose(c) ==
  /\ Listening(c) /\ clients[c].connected
  /\ clients' = [clients EXCEPT ![c].connected = FALSE]
  /\ status' = IF status # "disconnected" /\ ~isManualDisconnect
               THEN "disconnected" ELSE status
  /\ UNCHANGED <<client, config, isManualDisconnect, reconnectAttempts, pendingEnd, subscriptions>>
  /\ UNCHANGED <<rows, root, mainWindow, trace, delivered, nextId, queryVars, retention, replay>>

\* this.client?.end(true)
EndCurrent(cs) ==
  IF client = NoClient THEN cs
  ELSE [cs EXCEPT ![client].ended = TRUE, ![client].connected = FALSE]

\* onReconnect
OnReconnect(c) ==
  /\ Listening(c) /\ ~clients[c].connected /\ ~clients[c].ended
  /\ reconnectAttempts <= maxReconnectAttempts
  /\ IF isManualDisconnect
     THEN /\ clients' = EndCurrent(clients)
          /\ UNCHANGED <<status, reconnectAttempts>>
     ELSE IF reconnectAttempts + 1 > maxReconnectAttempts
     THEN /\ reconnectAttempts' = reconnectAttempts + 1
          /\ clients' = EndCurrent(clients)
          /\ status' = "disconnected"
     ELSE /\ reconnectAttempts' = reconnectAttempts + 1
          /\ status' = "reconnecting"
          /\ UNCHANGED clients
  /\ UNCHANGED <<client, config, isManualDisconnect, pendingEnd, subscriptions>>
  /\ UNCHANGED <<rows, root, mainWindow, trace, delivered, nextId, queryVars, retention, replay>>

\* a change of the table or the tree outdates what the last queries returned
NoQuery ==
  /\ searchFilter' = None
  /\ searchResult' = <<>>
  /\ matchPattern' = None
  /\ matchResult' = <<>>
  /\ exported' = None

\* onMessage: the client delivers a message, the service emits 'message', and
\* the listener runs to its end before anything else does
\* id is what `${Date.now()}_${Math.random()...}` came to
OnMessageWithId(c, id, topic, payload, qos, retain, now) ==
  /\ Listening(c) /\ clients[c].connected
  /\ LET message == NewMessage(id, topic, payload, qos, retain, now, config)
         after == MessageListener([rows |-> rows, root |-> root, trace |-> trace],
                                  message, mainWindow)
     IN /\ rows' = after.rows
        /\ root' = after.root
        /\ trace' = after.trace
        /\ delivered' = Append(delivered, message)
  /\ nextId' = nextId + 1
  /\ NoQuery
  /\ UNCHANGED <<serviceVars, mainWindow, retention, replay>>

\* onMessage with an id no earlier message has
OnMessage(c, topic, payload, qos, retain, now) ==
  OnMessageWithId(c, nextId, topic, payload, qos, retain, now)

\* the window is closed (mainWindow = null) or made again (createWindow)
WindowClosed ==
  /\ mainWindow' = FALSE
  /\ mainWindow
  /\ UNCHANGED <<serviceVars, rows, root, trace, delivered, nextId, queryVars, retention, replay>>

CreateWindow ==
  /\ ~mainWindow
  /\ mainWindow' = TRUE
  /\ UNCHANGED <<serviceVars, rows, root, trace, delivered, nextId, queryVars, retention, replay>>

\* MESSAGE_SEARCH: messageHistory.searchMessages(filter)
SearchMessages(filter) ==
  /\ searchFilter' = Some(filter)
  /\ searchResult' \in MessageHistory_searchMessages(rows, filter)
  /\ UNCHANGED <<serviceVars, rows, root, mainWindow, trace, delivered, nextId,
                 matchPattern, matchResult, exported, retention, replay>>

\* MESSAGE_EXPORT with format 'json': messageHistory.exportAsJSON(filter)
ExportAsJSON(filter) ==
  /\ \E text \in MessageHistory_exportAsJSON(rows, filter) :
       exported' = Some([filter |-> filter, text |-> text])
  /\ UNCHANGED <<serviceVars, rows, root, mainWindow, trace, delivered, nextId,
                 searchFilter, searchResult, matchPattern, matchResult,
                 retention, replay>>

\* topicTree.getMatchingTopics(pattern)
GetMatchingTopics(pattern) ==
  /\ matchPattern' = Some(pattern)
  /\ matchResult' = TopicTree_getMatchingTopics(root, pattern)
  /\ UNCHANGED <<serviceVars, rows, root, mainWindow, trace, delivered, nextId,
                 searchFilter, searchResult, exported, retention, replay>>

\* client.subscribe's callback without error, and the MQTT_SUBSCRIBE handler
\* that goes on after it: subscriptions.set, then markSubscribed(topic, true)
Subscribe(topic) ==
  /\ client # NoClient /\ clients[client].connected
  /\ subscriptions' = subscriptions \cup {topic}
  /\ root' = TopicTree_markSubscribed(root, topic, TRUE)
  /\ NoQuery
  /\ UNCHANGED <<client, clients, config, status, isManualDisconnect, reconnectAttempts,
                 pendingEnd, rows, mainWindow, trace, delivered, nextId, retention, replay>>

\* client.unsubscribe's callback without error, and the MQTT_UNSUBSCRIBE
\* handler after it: subscriptions.delete, then markSubscribed(topic, false)
Unsubscribe(topic) ==
  /\ client # NoClient /\ clients[client].connected
  /\ subscriptions' = subscriptions \ {topic}
  /\ root' = TopicTree_markSubscribed(root, topic, FALSE)
  /\ NoQuery
  /\ UNCHANGED <<client, clients, config, status, isManualDisconnect, reconnectAttempts,
                 pendingEnd, rows, mainWindow, trace, delivered, nextId, retention, replay>>

\* MESSAGE_CLEAR: messageHistory.clearAll(), topicTree.clear(), and
\* topicTree.clear() once more
MessageClear ==
  /\ rows' = MessageHistory_clearAll(rows)
  /\ root' = TopicTree_clear(TopicTree_clear(root))
  /\ NoQuery
  /\ UNCHANGED <<serviceVars, mainWindow, trace, delivered, nextId, retention, replay>>

\* ComputeCutoff with the age added to Date.now()
ComputeCutoffAhead(now, age) ==
  /\ IF IsSome(retention) THEN Get(retention).done ELSE TRUE
  /\ \A k \in 1..Len(delivered) : delivered[k].timestamp <= now
  /\ retention' = Some([startedAt |-> now, cutoff |-> now + age,
                        mark |-> Len(delivered), done |-> FALSE,
                        maxMessages |-> None, cleaned |-> 0,
                        changes |-> 0, returned |-> None])
  /\ UNCHANGED <<serviceVars, rows, root, mainWindow, trace, delivered, nextId, queryVars, replay>>

\* the renderer computes cutoffTime = Date.now() - days * 24 * 60 * 60 * 1000;
\* now is Date.now(), which no timestamp taken before it exceeds; mark is the
\* number of messages that had arrived by then
ComputeCutoff(now, age) ==
  /\ IF IsSome(retention) THEN Get(retention).done ELSE TRUE
  /\ \A k \in 1..Len(delivered) : delivered[k].timestamp <= now
  /\ retention' = Some([startedAt |-> now, cutoff |-> now - age,
                        mark |-> Len(delivered), done |-> FALSE,
                        maxMessages |-> None, cleaned |-> 0,
                        changes |-> 0, returned |-> None])
  /\ UNCHANGED <<serviceVars, rows, root, mainWindow, trace, delivered, nextId, queryVars, replay>>

\* messageHistory.clearOlderThan(cutoffTime)
ClearOlderThan ==
  /\ IsSome(retention) /\ ~Get(retention).done
  /\ rows' = MessageHistory_clearOlderThan(rows, Get(retention).cutoff)
  /\ LET changes == Len(rows) - Len(rows')
     IN retention' = Some([Get(retention) EXCEPT
                             !.done = TRUE,
                             !.changes = changes,
                             !.returned = ClearOlderThanReturns(changes)])
  /\ NoQuery
  /\ UNCHANGED <<serviceVars, root, mainWindow, trace, delivered, nextId, replay>>

\* Date.now() at the arrival of a message: not before the timestamps taken
\* so far, the retention check's included
\* applyRetentionPolicy(settings): the cutoff of the age limit is computed
\* and dropped, MESSAGE_GET_STATS is read, and when totalMessages exceeds
\* maxMessages the component shows "Retention policy would clean N messages
\* (not implemented yet)"; no delete is requested, the table stays as it is
ApplyRetentionPolicy(now, settings) ==
  LET stats == MessageHistory_getStatistics(rows)
      cleaned == IF stats.totalMessages > settings.maxMessages
                 THEN stats.totalMessages - settings.maxMessages
                 ELSE 0
  IN /\ retention' = Some([startedAt |-> now, cutoff |-> now - settings.maxAgeDays,
                           mark |-> Len(delivered), done |-> TRUE,
                           maxMessages |-> Some(settings.maxMessages),
                           cleaned |-> cleaned,
                           changes |-> 0, returned |-> None])
     /\ UNCHANGED rows

\* handleSave(values): the settings go to localStorage, and the policy is
\* applied at once if it is enabled
HandleSave(now, values) ==
  /\ IF IsSome(retention) THEN Get(retention).done ELSE TRUE
  /\ \A k \in 1..Len(delivered) : delivered[k].timestamp <= now
  /\ IF values.enabled
     THEN ApplyRetentionPolicy(now, values)
     ELSE UNCHANGED <<retention, rows>>
  /\ UNCHANGED <<serviceVars, root, mainWindow, trace, delivered, nextId, queryVars, replay>>

\* pauseReplay(): setIsPlaying(false), and the timeout playIntervalRef names
\* is cleared
MessageReplay_pauseReplay(r) ==
  [r EXCEPT !.isPlaying = FALSE, !.timer = FALSE]

\* stopReplay(): pauseReplay(), and the position goes back to 0
MessageReplay_stopReplay(r) ==
  [MessageReplay_pauseReplay(r) EXCEPT !.index = 0, !.isPlaying = FALSE]

\* the user, or publishMessage's catch, has called pauseReplay or stopReplay
Halted(r) ==
  [r EXCEPT !.halted = TRUE, !.publishedAfterHalt = FALSE,
            !.scheduledAfterHalt = FALSE]

\* playNextMessage() up to its await: past the last message it stops,
\* otherwise it sends MQTT_PUBLISH for messages[currentIndexRef] and waits
MessageReplay_playNextMessage(r) ==
  IF r.index >= r.messages THEN MessageReplay_stopReplay(r)
  ELSE [r EXCEPT !.inFlight = Append(@, r.index),
                 !.publishedAfterHalt = @ \/ r.halted]

\* playNextMessage() after its await, for the message at index: the position
\* moves on and, if a message is left, the next call is scheduled; isPlaying
\* is not looked at
MessageReplay_afterPublish(r, index) ==
  LET nextIndex == index + 1 IN
  IF nextIndex < r.messages
  THEN [r EXCEPT !.index = nextIndex,
                 !.orphans = IF r.timer THEN @ + 1 ELSE @,
                 !.timer = TRUE,
                 !.scheduledAfterHalt = @ \/ r.halted]
  ELSE [r EXCEPT !.index = nextIndex, !.isPlaying = FALSE]

ReplayOnly ==
  UNCHANGED <<serviceVars, rows, root, mainWindow, trace, delivered, nextId,
              queryVars, retention>>

\* loadMessages(): n messages of the history are loaded (once, before any
\* playback)
LoadMessages(n) ==
  /\ replay = NoReplay
  /\ replay' = [replay EXCEPT !.messages = n]
  /\ ReplayOnly

\* startReplay(), from the Start / Resume button, which is there while
\* isPlaying is false
StartReplay ==
  /\ ~replay.isPlaying
  /\ replay.messages > 0
  /\ Len(replay.inFlight) + replay.orphans + (IF replay.timer THEN 1 ELSE 0) < MaxChains
  /\ replay' = MessageReplay_playNextMessage(
                 [replay EXCEPT !.isPlaying = TRUE, !.halted = FALSE,
                                !.publishedAfterHalt = FALSE,
                                !.scheduledAfterHalt = FALSE])
  /\ ReplayOnly

\* the MQTT_PUBLISH of the k-th waiting call settles.  Rejected, it takes
\* publishMessage into its catch, which calls stopReplay() and throws
\* nothing on; either way playNextMessage goes on after its await
PublishSettles(k, ok) ==
  /\ k \in 1..Len(replay.inFlight)
  /\ LET index == replay.inFlight[k]
         rest == [replay EXCEPT !.inFlight =
                    [j \in 1..(Len(@) - 1) |-> IF j < k THEN @[j] ELSE @[j + 1]]]
         settled == IF ok THEN rest ELSE Halted(MessageReplay_stopReplay(rest))
     IN replay' = MessageReplay_afterPublish(settled, index)
  /\ ReplayOnly

\* a timeout fires: the one playIntervalRef names, or an earlier one
TimeoutFires(named) ==
  /\ IF named THEN replay.timer ELSE replay.orphans > 0
  /\ replay' = MessageReplay_playNextMessage(
                 IF named THEN [replay EXCEPT !.timer = FALSE]
                 ELSE [replay EXCEPT !.orphans = @ - 1])
  /\ ReplayOnly

\* the Pause button, which is there while isPlaying is true
PauseReplay ==
  /\ replay.isPlaying
  /\ replay' = Halted(MessageReplay_pauseReplay(replay))
  /\ ReplayOnly

\* the Stop button, disabled when nothing plays and the position is 0
StopReplay ==
  /\ replay.isPlaying \/ replay.index # 0
  /\ replay' = Halted(MessageReplay_stopReplay(replay))
  /\ ReplayOnly

ClockAllows(now) ==
  /\ \A k \in 1..Len(delivered) : delivered[k].timestamp <= now
  /\ IsSome(retention) => Get(retention).startedAt <= now

----------------------------------------------------------------------------
(* Inputs. *)

\* ConnectionConfig.id: a saved profile's id, or none (a connection made
\* from the form without saving it)
ConnectionIds == {Undefined, "conn_1"}

\* QoS
QoS == {0, 1, 2}

\* Date.now()
Times == 1..MaxTime

TopicA == <<"a">>
TopicAB == <<"a", "b">>
TopicA_B == <<"a", "/", "b">>
TopicA_B_C == <<"a", "/", "b", "/", "c">>
\* a topic with an empty first level, "/a"
TopicSlashA == <<"/", "a">>
Topics == {TopicA, TopicAB, TopicA_B, TopicA_B_C}

\* payloads, as the tokens of their text
Payloads == {<<>>, <<"on">>}

----------------------------------------------------------------------------
(* The connection life cycle: connect, disconnect and the clients' events   *)
(* in any order, messages arriving meanwhile.                               *)

Init ==
  /\ client = NoClient
  /\ clients = <<>>
  /\ config = Undefined
  /\ status = "disconnected"
  /\ isManualDisconnect = FALSE
  /\ reconnectAttempts = 0
  /\ pendingEnd = <<>>
  /\ subscriptions = {}
  /\ rows = <<>>
  /\ root = <<>>
  /\ mainWindow = TRUE
  /\ trace = <<>>
  /\ delivered = <<>>
  /\ nextId = 1
  /\ searchFilter = None
  /\ searchResult = <<>>
  /\ matchPattern = None
  /\ matchResult = <<>>
  /\ exported = None
  /\ retention = None
  /\ replay = NoReplay

Next ==
  \/ \E id \in ConnectionIds : Connect(id)
  \/ Disconnect
  \/ \E k \in 1..Len(pendingEnd) : EndCallback(k)
  \/ \E c \in 1..Len(clients) : OnConnect(c)
  \/ \E c \in 1..Len(clients) : OnClose(c)
  \/ \E c \in 1..Len(clients) : OnReconnect(c)
  \/ \E c \in 1..Len(clients), topic \in {TopicA, TopicA_B} :
       /\ Len(delivered) < MaxDeliveries
       /\ OnMessage(c, topic, <<"on">>, 0, FALSE, 1)
  \/ WindowClosed
  \/ CreateWindow

Spec == Init /\ [][Next]_vars

----------------------------------------------------------------------------
(* The store's queries, on a connection that is up.  A query changes nothing *)
(* that a later query reads, so a run asks each query once between two       *)
(* messages.                                                                 *)

\* the state once connect(config) has resolved
Connected(id) ==
  /\ client = 1
  /\ clients = <<[connected |-> TRUE, handlers |-> TRUE, ended |-> FALSE]>>
  /\ config = id
  /\ status = "connected"
  /\ isManualDisconnect = FALSE
  /\ reconnectAttempts = 0
  /\ pendingEnd = <<>>
  /\ subscriptions = {}
  /\ rows = <<>>
  /\ root = <<>>
  /\ mainWindow = TRUE
  /\ trace = <<>>
  /\ delivered = <<>>
  /\ nextId = 1
  /\ searchFilter = None
  /\ searchResult = <<>>
  /\ matchPattern = None
  /\ matchResult = <<>>
  /\ exported = None
  /\ retention = None
  /\ replay = NoReplay

\* append, then search({}): messages of every shape
InitAppend == \E id \in ConnectionIds : Connected(id)

NextAppend ==
  \/ \E payload \in Payloads, qos \in {0, 2}, retain \in BOOLEAN, now \in Times :
       /\ Len(rows) < MaxRows
       /\ OnMessage(1, TopicA_B, payload, qos, retain, now)
  \/ searchFilter = None /\ SearchMessages(EmptyFilter)

SpecAppend == InitAppend /\ [][NextAppend]_vars

\* the filters on a row's fields, and the window
OptionalTimes == {None} \cup {Some(t) : t \in 0..MaxTime}
OptionalCounts == {None} \cup {Some(n) : n \in 0..MaxRows}

FieldFilters ==
  {[EmptyFilter EXCEPT !.qos = q, !.retained = r, !.startTime = s, !.endTime = e] :
     q \in {None, Some(0), Some(1)}, r \in {None, Some(TRUE), Some(FALSE)},
     s \in OptionalTimes, e \in OptionalTimes}

WindowFilters ==
  {[EmptyFilter EXCEPT !.limit = l, !.offset = o, !.qos = q] :
     l \in OptionalCounts, o \in OptionalCounts, q \in {None, Some(0)}}

\* a full-text expression FTS5 rejects
RejectedFilters == {[EmptyFilter EXCEPT !.payloadSearch = Some(BadFtsQuery)]}

InitFilter == Connected("conn_1")

NextFilter ==
  \/ \E qos \in {0, 1}, retain \in BOOLEAN, now \in Times :
       /\ Len(rows) < MaxRows
       /\ OnMessage(1, TopicA_B, <<"on">>, qos, retain, now)
  \/ \E filter \in FieldFilters \cup WindowFilters \cup RejectedFilters :
       searchFilter = None /\ SearchMessages(filter)

SpecFilter == InitFilter /\ [][NextFilter]_vars

\* topic filters, against the store and against the tree
Patterns ==
  {TopicA, TopicA_B, <<"a", "/", "#">>, <<"a", "/", "+">>, <<"+">>, <<"#">>,
   <<"+", "/", "b">>, <<"a", "/", "+", "/", "c">>}

InitTopic == Connected("conn_1")

NextTopic ==
  \/ \E topic \in Topics, now \in Times :
       /\ Len(rows) < MaxRows
       /\ OnMessage(1, topic, <<"on">>, 0, FALSE, now)
  \/ \E p \in Patterns :
       /\ searchFilter = None /\ matchPattern \in {None, Some(p)}
       /\ SearchMessages([EmptyFilter EXCEPT !.topic = Some(p)])
  \/ \E p \in Patterns :
       /\ matchPattern = None
       /\ IsSome(searchFilter) => Get(searchFilter).topic = Some(p)
       /\ GetMatchingTopics(p)

SpecTopic == InitTopic /\ [][NextTopic]_vars

\* the tree: messages on topics of every depth, one with an empty first
\* level; subscribe and unsubscribe; getMatchingTopics
TreeTopics == Topics \cup {TopicSlashA}
TreePatterns == Patterns \cup TreeTopics

InitTree == Connected("conn_1")

NextTree ==
  \/ \E topic \in TreeTopics :
       /\ Len(delivered) < MaxDeliveries
       /\ OnMessage(1, topic, <<"on">>, 0, FALSE, 1)
  \/ \E topic \in {TopicA, TopicA_B} : Subscribe(topic)
  \/ \E topic \in {TopicA, TopicA_B} : Unsubscribe(topic)
  \/ \E p \in TreePatterns : matchPattern = None /\ GetMatchingTopics(p)

SpecTree == InitTree /\ [][NextTree]_vars

\* the store under append, clearOlderThan, clear and search in any order
Clock == 1..(MaxTime + 1)
Ages == 1..MaxTime

InitStore == Connected("conn_1")

NextStore ==
  \/ \E now \in Clock, retain \in BOOLEAN :
       /\ Len(delivered) < MaxDeliveries
       /\ ClockAllows(now)
       /\ OnMessage(1, TopicA_B, <<"on">>, 0, retain, now)
  \/ \E now \in Clock, age \in Ages : ComputeCutoff(now, age)
  \/ ClearOlderThan
  \/ MessageClear
  \/ \E filter \in {EmptyFilter, [EmptyFilter EXCEPT !.payloadSearch = Some("on")]} :
       searchFilter = None /\ SearchMessages(filter)

SpecStore == InitStore /\ [][NextStore]_vars

\* Export (SpecExport): messages of two topics, one with a '"' in it, are
\* stored and exported under a filter.
TopicQuote == <<"a", "\"">>

ExportFilters ==
  {EmptyFilter,
   [EmptyFilter EXCEPT !.topic = Some(TopicQuote)],
   [EmptyFilter EXCEPT !.qos = Some(1)],
   [EmptyFilter EXCEPT !.retained = Some(TRUE)],
   [EmptyFilter EXCEPT !.limit = Some(1)],
   [EmptyFilter EXCEPT !.offset = Some(1)]}

InitExport == Connected("conn_1")

NextExport ==
  \/ \E topic \in {TopicA_B, TopicQuote}, retain \in BOOLEAN, now \in Times :
       /\ Len(rows) < MaxRows
       /\ OnMessage(1, topic, <<"on">>, IF topic = TopicQuote THEN 1 ELSE 0, retain, now)
  \/ \E filter \in ExportFilters : exported = None /\ ExportAsJSON(filter)

SpecExport == InitExport /\ [][NextExport]_vars

\* Replay (SpecReplay): messages are loaded and played, the user pauses,
\* stops and starts again, publishes succeed or fail, in any order.
InitReplay == Connected("conn_1")

NextReplay ==
  \/ \E n \in 1..(MaxRows + 1) : LoadMessages(n)
  \/ StartReplay
  \/ \E k \in 1..MaxChains, ok \in BOOLEAN : PublishSettles(k, ok)
  \/ \E named \in BOOLEAN : TimeoutFires(named)
  \/ PauseReplay
  \/ StopReplay

SpecReplay == InitReplay /\ [][NextReplay]_vars

\* Two connections, one store (SpecConnections): the profile is changed,
\* messages of both connections are stored, and the store is searched by
\* connection.
ProfileIds == {"conn_1", "conn_2"}

ConnectionFilters ==
  {[EmptyFilter EXCEPT !.connectionId = Some(id)] : id \in ProfileIds}

InitConnections == Connected("conn_1")

NextConnections ==
  \/ \E id \in ProfileIds : Connect(id)
  \/ \E k \in 1..MaxPending : EndCallback(k)
  \/ \E c \in 1..MaxClients : OnConnect(c)
  \/ \E c \in 1..MaxClients, now \in Times :
       /\ Len(delivered) < MaxDeliveries
       /\ ClockAllows(now)
       /\ OnMessage(c, TopicA, <<"on">>, 0, FALSE, now)
  \/ \E filter \in ConnectionFilters \cup {EmptyFilter} :
       searchFilter = None /\ SearchMessages(filter)

SpecConnections == InitConnections /\ [][NextConnections]_vars

\* Rejected inserts (SpecRejected): the id of a message may be the id of an
\* earlier one, and then the INSERT violates the PRIMARY KEY and throws.
InitRejected == Connected("conn_1")

NextRejected ==
  \/ \E id \in 1..MaxDeliveries, topic \in {TopicA, TopicA_B}, now \in Times :
       /\ Len(delivered) < MaxDeliveries + 1
       /\ id <= nextId
       /\ ClockAllows(now)
       /\ OnMessageWithId(1, id, topic, <<"on">>, 0, FALSE, now)
  \/ WindowClosed
  \/ CreateWindow
  \/ searchFilter = None /\ SearchMessages(EmptyFilter)

SpecRejected == InitRejected /\ [][NextRejected]_vars

\* The retention form (SpecRetention): messages arrive and the form is
\* saved, with the policy enabled or not; maxMessages is the form's field
\* at the model's scale (the form asks for 100 at least).
RetentionSettings ==
  [enabled : BOOLEAN, maxMessages : 1..MaxRows, maxAgeDays : Ages]

InitRetention == Connected("conn_1")

NextRetention ==
  \/ \E now \in Clock, retain \in BOOLEAN :
       /\ Len(delivered) < MaxDeliveries
       /\ ClockAllows(now)
       /\ OnMessage(1, TopicA_B, <<"on">>, 0, retain, now)
  \/ \E now \in Clock, values \in RetentionSettings : HandleSave(now, values)
  \/ MessageClear

SpecRetention == InitRetention /\ [][NextRetention]_vars

----------------------------------------------------------------------------
(* Ingestion (Spec). *)

\* the messages of the trace's events of one kind, in order
Calls(op) ==
  LET picked == SelectSeq(trace, LAMBDA e : e.op = op)
  IN [k \in 1..Len(picked) |-> picked[k].message]

\* C1: whatever connect, disconnect and the clients' events did in between,
\* the messages passed to MessageHistory.addMessage and the messages passed
\* to TopicTree.addMessage are, each once and in arrival order, the messages
\* the clients delivered.
C1_SameSequenceOnce ==
  /\ Calls("addMessage") = delivered
  /\ Calls("topicTree.addMessage") = delivered

\* C1's case: two messages, delivered on two connections (two clients)
C1_Witness ==
  /\ Len(delivered) = 2
  /\ Len(clients) = 2
  /\ delivered[1].connectionId = "conn_1"
  /\ delivered[2].connectionId = Undefined
  /\ Calls("addMessage") = delivered

\* C2: a notification of the renderer about a message (MQTT_MESSAGE,
\* TOPIC_TREE_UPDATED) comes only after addMessage and topicTree.addMessage
\* were called, and returned, for that message.
C2_NotifiedAfterBoth ==
  \A i \in 1..Len(trace) :
    trace[i].op \in {"MQTT_MESSAGE", "TOPIC_TREE_UPDATED"} =>
      /\ \E j \in 1..(i - 1) :
           trace[j].op = "addMessage" /\ trace[j].message = trace[i].message
      /\ \E j \in 1..(i - 1) :
           trace[j].op = "topicTree.addMessage" /\ trace[j].message = trace[i].message

\* C2's case: two messages arrived and the renderer was told of both
C2_Witness ==
  /\ Len(delivered) = 2
  /\ Len(Calls("MQTT_MESSAGE")) = 2
  /\ Len(Calls("TOPIC_TREE_UPDATED")) = 2

----------------------------------------------------------------------------
(* append, then search({}) (SpecAppend). *)

\* a connectionId that is not there: undefined in the message built by
\* onMessage, null in a message read back from the table
NoConnectionId(x) == x \in {Undefined, Null}

\* two messages are equal field by field; connectionId is an optional
\* string, equal when it is absent on both sides or the same id on both
SameFields(a, b) ==
  /\ a.id = b.id
  /\ a.topic = b.topic
  /\ a.payload = b.payload
  /\ a.qos = b.qos
  /\ a.retained = b.retained
  /\ a.timestamp = b.timestamp
  /\ IF NoConnectionId(a.connectionId)
     THEN NoConnectionId(b.connectionId)
     ELSE a.connectionId = b.connectionId

----------------------------------------------------------------------------
(* The filters on a row's fields and the window (SpecFilter). *)

\* C4: the array searchMessages returns is ordered by timestamp, latest
\* first.
C4_TimestampDescending ==
  IsSome(searchFilter) =>
    \A k \in 1..(Len(searchResult) - 1) :
      searchResult[k].timestamp >= searchResult[k + 1].timestamp

\* C4's case: two rows, the later one inserted last, both returned
C4_Witness ==
  /\ IsSome(searchFilter)
  /\ Len(searchResult) = 2
  /\ rows[1].timestamp < rows[2].timestamp
  /\ searchResult[1].id = rows[2].id

\* the rows a filter selects as the claim has it: a field that is there
\* constrains, whatever its value
SelectedAsClaimed(filter, row) ==
  /\ IsSome(filter.qos) => row.qos = Get(filter.qos)
  /\ IsSome(filter.retained) => (row.retained = 1) = Get(filter.retained)
  /\ IsSome(filter.startTime) => row.timestamp >= Get(filter.startTime)
  /\ IsSome(filter.endTime) => row.timestamp <= Get(filter.endTime)

\* the records of an array, as a set
Records(result) == {result[k] : k \in 1..Len(result)}

\* C5: without limit and offset, searchMessages returns exactly the stored
\* records that satisfy every field the filter holds (qos, retained,
\* startTime <= timestamp <= endTime), for every value of the field.
C5_ExactlyTheSelected ==
  (/\ IsSome(searchFilter)
   /\ Get(searchFilter).limit = None
   /\ Get(searchFilter).offset = None) =>
    LET expected == {i \in 1..Len(rows) : SelectedAsClaimed(Get(searchFilter), rows[i])}
    IN /\ Records(searchResult) = {RowToMessage(rows[i]) : i \in expected}
       /\ Len(searchResult) = Cardinality(expected)

\* the window as the claim has it: offset skipped whenever it is set, at
\* most limit records whenever limit is set
WindowAsClaimed(filter, ordered) ==
  LET skip == IF IsSome(filter.offset) THEN Get(filter.offset) ELSE 0
      last == IF IsSome(filter.limit)
              THEN Min(Len(ordered), skip + Get(filter.limit))
              ELSE Len(ordered)
  IN SubSeq(ordered, skip + 1, last)

\* C6: searchMessages returns the window of the timestamp-descending list
\* of the selected records that starts after offset records (with or
\* without a limit) and holds at most limit records.
C6_OffsetThenLimit ==
  IsSome(searchFilter) =>
    LET filter == Get(searchFilter)
        selected == {i \in 1..Len(rows) : RowSelected(filter, rows[i])}
    IN \E f \in OrderByTimestampDesc(rows, selected) :
         searchResult =
           WindowAsClaimed(filter, [k \in 1..Len(f) |-> RowToMessage(rows[f[k]])])

----------------------------------------------------------------------------
(* Topic filters (SpecTopic). *)

HasWildcard(p) == Includes(p, "+") \/ Includes(p, "#")

\* topic t lies beneath p: it begins with p followed by '/'
Beneath(p, t) == Len(t) > Len(p) /\ SubSeq(t, 1, Len(p) + 1) = p \o <<"/">>

\* the topic filter of the last search, when there was one with a topic
SearchedTopic == IF IsSome(searchFilter) THEN Get(searchFilter).topic ELSE None

\* C7: for a filter topic p without wildcard, searchMessages({topic: p})
\* returns exactly the stored records whose topic is p or begins with p/
\* (so 'sensors/kitchen' returns the records of sensors/kitchen/temp and
\* sensors/kitchen/humidity).
C7_PrefixWithoutWildcard ==
  (IsSome(SearchedTopic) /\ ~HasWildcard(Get(SearchedTopic))) =>
    LET p == Get(SearchedTopic) IN
    Records(searchResult) =
      {RowToMessage(rows[i]) :
         i \in {j \in 1..Len(rows) : rows[j].topic = p \/ Beneath(p, rows[j].topic)}}

\* C8: a filter topic q/# returns the records of q itself and of every
\* topic beneath q, and nothing else ('a/#': 'a', 'a/b', 'a/b/c', not 'ab').
C8_HashMatchesParentAndBelow ==
  (/\ IsSome(SearchedTopic)
   /\ Len(Get(SearchedTopic)) > 2
   /\ SubSeq(Get(SearchedTopic), Len(Get(SearchedTopic)) - 1, Len(Get(SearchedTopic)))
        = <<"/", "#">>
   /\ ~HasWildcard(SubSeq(Get(SearchedTopic), 1, Len(Get(SearchedTopic)) - 2))) =>
    LET q == SubSeq(Get(SearchedTopic), 1, Len(Get(SearchedTopic)) - 2) IN
    Records(searchResult) =
      {RowToMessage(rows[i]) :
         i \in {j \in 1..Len(rows) : rows[j].topic = q \/ Beneath(q, rows[j].topic)}}

RECURSIVE SegmentsMatch(_, _)
\* MQTT's matching of a filter's segments ps against a topic's segments ts:
\* + is one whole, non-empty segment, a trailing # any segments, none too
SegmentsMatch(ps, ts) ==
  IF ps = <<>> THEN ts = <<>>
  ELSE IF Head(ps) = <<"#">> THEN Len(ps) = 1
  ELSE IF ts = <<>> THEN FALSE
  ELSE /\ IF Head(ps) = <<"+">> THEN Head(ts) # <<>> ELSE Head(ps) = Head(ts)
       /\ SegmentsMatch(Tail(ps), Tail(ts))

\* C9: a + in the filter topic matches exactly one non-empty segment and
\* never crosses a '/': a topic is returned for a filter holding + only if
\* it has the filter's number of segments (up to a trailing #) and one
\* whole segment at every +.
C9_PlusIsOneSegment ==
  (IsSome(SearchedTopic) /\ Includes(Get(SearchedTopic), "+")) =>
    \A k \in 1..Len(searchResult) :
      SegmentsMatch(Split(Get(SearchedTopic)), Split(searchResult[k].topic))

\* C10: the store and the tree read a pattern alike: the topics of the
\* records searchMessages({topic: p}) returns are the paths
\* getMatchingTopics(p) returns that have messageCount > 0.
C10_StoreAndTreeAgree ==
  (IsSome(SearchedTopic) /\ SearchedTopic = matchPattern) =>
    {searchResult[k].topic : k \in 1..Len(searchResult)} =
      {n.fullPath : n \in {m \in NodesOf(root) :
         /\ m.messageCount > 0
         /\ \E k \in 1..Len(matchResult) : matchResult[k] = m.fullPath}}

----------------------------------------------------------------------------
(* The tree (SpecTree). *)

\* the message that arrives in a step in which one arrives
Arrived == delivered'[Len(delivered')]

\* C11: addMessage(r) adds 1 to messageCount and sets lastMessage to r on
\* the node whose fullPath is r.topic, and leaves messageCount and
\* lastMessage of every other node, the ancestors too, as they were (a node
\* it creates has messageCount 0 and no lastMessage).
C11_OnlyTheTopicsNode ==
  [][delivered' # delivered =>
       LET before == NodesOf(root)
           after == NodesOf(root')
           was == IF \E o \in before : o.fullPath = Arrived.topic
                  THEN (CHOOSE o \in before : o.fullPath = Arrived.topic).messageCount
                  ELSE 0
       IN /\ \E n \in after :
               /\ n.fullPath = Arrived.topic
               /\ n.messageCount = was + 1
               /\ n.lastMessage = Some(Arrived)
          /\ \A n \in after :
               n.fullPath # Arrived.topic =>
                 IF \E o \in before : o.fullPath = n.fullPath
                 THEN \E o \in before :
                        /\ o.fullPath = n.fullPath
                        /\ o.messageCount = n.messageCount
                        /\ o.lastMessage = n.lastMessage
                 ELSE n.messageCount = 0 /\ n.lastMessage = None
          /\ \A o \in before : \E n \in after : n.fullPath = o.fullPath]_vars

\* the paths of an array, as a set
Paths(result) == {result[k] : k \in 1..Len(result)}

\* C12: for a pattern p with a wildcard, getMatchingTopics(p) returns all
\* and only the paths of the nodes that satisfy p: + is one non-empty
\* segment, a trailing # the path before it and everything deeper.
C12_AllAndOnlyTheMatching ==
  (IsSome(matchPattern) /\ HasWildcard(Get(matchPattern))) =>
    Paths(matchResult) =
      {n.fullPath : n \in {m \in NodesOf(root) :
         SegmentsMatch(Split(Get(matchPattern)), Split(m.fullPath))}}

\* the topics of the messages absorbed so far
AbsorbedTopics == {delivered[k].topic : k \in 1..Len(delivered)}

\* C13: for absorbed topics t1 # t2, getMatchingTopics(t1) does not hold
\* t2, nor the fullPath of t2's node, unless t1 is a wildcard pattern that
\* matches t2.
C13_NoOtherTopic ==
  (IsSome(matchPattern) /\ Get(matchPattern) \in AbsorbedTopics) =>
    \A t2 \in AbsorbedTopics \ {Get(matchPattern)} :
      \/ /\ HasWildcard(Get(matchPattern))
         /\ SegmentsMatch(Split(Get(matchPattern)), Split(t2))
      \/ /\ t2 \notin Paths(matchResult)
         /\ LET node == TopicTree_findNode(root, t2)
            IN IsSome(node) => Get(node).fullPath \notin Paths(matchResult)

\* C14: markSubscribed(topic, true) creates the node of a path that has
\* none, so a topic subscribed to has its node, with subscribed = true,
\* before its first message and after it.
C14_SubscribedNodeExists ==
  \A topic \in subscriptions :
    LET node == TopicTree_findNode(root, topic)
    IN IsSome(node) /\ Get(node).subscribed

----------------------------------------------------------------------------
(* The tree and the store across connections (Spec). *)

\* C15: a new or changed connection starts from an empty tree: when the
\* client of a connection is up and no message of that connection has
\* arrived, the tree holds no node.
C15_TreeEmptyOnConnect ==
  (/\ client # NoClient
   /\ clients[client].connected
   /\ \A k \in 1..Len(delivered) : delivered[k].connectionId # config) =>
    root = <<>>

\* C17: connect, disconnect and the clients' connection events leave the
\* table as it is: no step but the arrival of a message changes it.
C17_HistoryPersists ==
  [][delivered' = delivered => rows' = rows]_vars

\* C17's case: the second connection is up, the row of a message of the
\* first still there
C17_Witness ==
  /\ Len(clients) = 2
  /\ client = 2
  /\ clients[2].connected
  /\ config = Undefined
  /\ Len(rows) = 1
  /\ rows[1].connection_id = "conn_1"

----------------------------------------------------------------------------
(* Clear, retention and search in any order (SpecStore). *)

C18_NoDuplicateNoTornRecord ==
  IsSome(searchFilter) =>
    /\ \A j, k \in 1..Len(searchResult) :
         j # k => searchResult[j].id # searchResult[k].id
    /\ \A k \in 1..Len(searchResult) :
         \E j \in 1..Len(delivered) :
           /\ delivered[j].id = searchResult[k].id
           /\ SameFields(delivered[j], searchResult[k])

\* C18's case: a full-text search after a retention run, two records found
C18_Witness ==
  /\ IsSome(searchFilter)
  /\ Get(searchFilter).payloadSearch = Some("on")
  /\ IsSome(retention)
  /\ Get(retention).done
  /\ Len(searchResult) = 2
  /\ searchResult[1].retained # searchResult[2].retained

\* the step in which clearOlderThan runs
RetentionRuns ==
  /\ IsSome(retention) /\ ~Get(retention).done
  /\ IsSome(retention') /\ Get(retention').done

C20_ExactlyTheOlder ==
  [][RetentionRuns =>
       LET t == Get(retention).cutoff
           kept == {i \in 1..Len(rows) : rows[i].timestamp >= t}
       IN /\ Len(rows') = Cardinality(kept)
          /\ \A i \in kept : \E j \in 1..Len(rows') : rows'[j] = rows[i]
          /\ \A j \in 1..Len(rows') : rows'[j].timestamp >= t
          /\ \A j, k \in 1..Len(rows') :
               j < k => \E a, b \in kept : a < b /\ rows[a] = rows'[j] /\ rows[b] = rows'[k]
          /\ MessageHistory_getStatistics(rows').totalMessages = Cardinality(kept)]_vars

\* C20's case: of two rows the one older than the cutoff is gone, the one
\* with the cutoff's own timestamp is there
C20_Witness ==
  /\ IsSome(retention)
  /\ Get(retention).done
  /\ Len(delivered) = 2
  /\ delivered[1].timestamp < Get(retention).cutoff
  /\ Len(rows) = 1
  /\ rows[1].timestamp = Get(retention).cutoff
  /\ MessageHistory_getStatistics(rows).totalMessages = 1

\* C21 as the specification states it: clearOlderThan(t) hands its caller the
\* number of rows it deleted.
C21_ReturnsCountRemoved ==
  [][RetentionRuns =>
       Get(retention').returned = Some(Len(rows) - Len(rows'))]_vars

\* C21: clearOlderThan(t) returns nothing to its caller; the number of rows
\* it deleted (result.changes) is what it writes to the log.
C21_CountOnlyLogged ==
  [][RetentionRuns =>
       /\ Get(retention').returned = None
       /\ Get(retention').changes = Len(rows) - Len(rows')
       /\ Get(retention').changes =
            Cardinality({i \in 1..Len(rows) :
                           rows[i].timestamp < Get(retention).cutoff})]_vars

\* C21's case: clearOlderThan deleted both stored rows and returned nothing
C21_Witness ==
  /\ IsSome(retention)
  /\ Get(retention).done
  /\ Get(retention).changes = 2
  /\ Get(retention).returned = None
  /\ Len(delivered) = 2
  /\ rows = <<>>

\* handleSave applied an enabled policy in this step
PolicyApplied ==
  /\ IsSome(retention')
  /\ IsSome(Get(retention').maxMessages)
  /\ retention' # retention

\* C22: once an enabled policy with maximum count N has been applied the
\* table holds at most N rows, and every row that went is at most as recent
\* as every row that stayed.
C22_AtMostMaxMessages ==
  [][PolicyApplied =>
       LET N == Get(Get(retention').maxMessages)
           kept == {rows'[j].id : j \in 1..Len(rows')}
       IN /\ Len(rows') <= N
          /\ \A i \in 1..Len(rows), j \in 1..Len(rows') :
               rows[i].id \notin kept => rows[i].timestamp <= rows'[j].timestamp]_vars

----------------------------------------------------------------------------
(* Rejected inserts (SpecRejected). *)

\* C23: for every message that arrives, addMessage and topicTree.addMessage
\* are both called, whether or not the INSERT was rejected: the topic's node
\* counts the message, the row is stored unless its INSERT was rejected, and
\* so it is for every message after a rejected one.
C23_BothAttempted ==
  [][delivered' # delivered =>
       LET before == TopicTree_findNode(root, Arrived.topic)
           after == TopicTree_findNode(root', Arrived.topic)
           was == IF IsSome(before) THEN Get(before).messageCount ELSE 0
           called(op) == Len(SelectSeq(trace', LAMBDA e : e.op = op /\ e.message = Arrived))
                           - Len(SelectSeq(trace, LAMBDA e : e.op = op /\ e.message = Arrived))
       IN /\ called("addMessage") = 1
          /\ called("topicTree.addMessage") = 1
          /\ IsSome(after)
          /\ Get(after).messageCount = was + 1
          /\ Get(after).lastMessage = Some(Arrived)
          /\ IF InsertFails(rows, Arrived)
             THEN rows' = rows
             ELSE rows' = Append(rows, MessageToRow(Arrived))]_vars

\* C23's case: the second message's INSERT was rejected (it came with the
\* first one's id), the tree counted it all the same, and the third message
\* was stored and counted after it
C23_Witness ==
  /\ Len(delivered) = 3
  /\ delivered[2].id = delivered[1].id
  /\ delivered[3].id # delivered[1].id
  /\ \A k \in 1..3 : delivered[k].topic = TopicA
  /\ Len(rows) = 2
  /\ rows[2].id = delivered[3].id
  /\ IsSome(TopicTree_findNode(root, TopicA))
  /\ Get(TopicTree_findNode(root, TopicA)).messageCount = 3

\* C24: a rejected INSERT reaches addMessage's caller: after the call the
\* listener has an exception or an 'error' event for that message, not only
\* the log line of the catch.
C24_FailureReported ==
  \A i \in 1..Len(trace) :
    trace[i].op = "console.error" =>
      \E j \in (i + 1)..Len(trace) :
        /\ trace[j].op \in {"throw", "error", "MQTT_ERROR"}
        /\ trace[j].message = trace[i].message

----------------------------------------------------------------------------
(* Failures and boundaries of searchMessages (SpecFilter). *)

\* C25: when the query of searchMessages fails (the statement is rejected:
\* a malformed full-text expression, an OFFSET without LIMIT) while stored
\* records satisfy the filter's conditions (more of them than the offset
\* skips), the caller does not get the empty array a search without matches
\* returns.
C25_QueryFailureIsExplicit ==
  (/\ IsSome(searchFilter)
   /\ QueryThrows(Get(searchFilter))
   /\ LET matching == {i \in 1..Len(rows) :
                          /\ TopicCondition(Get(searchFilter), rows[i])
                          /\ FieldConditions(Get(searchFilter), rows[i])}
          skipped == IF IsSome(Get(searchFilter).offset)
                     THEN Get(Get(searchFilter).offset) ELSE 0
      IN Cardinality(matching) > skipped) =>
    searchResult # <<>>

\* C26: a filter whose startTime is greater than its endTime gets the empty
\* array, whatever the two values are.
C26_InvalidRangeIsEmpty ==
  (/\ IsSome(searchFilter)
   /\ IsSome(Get(searchFilter).startTime)
   /\ IsSome(Get(searchFilter).endTime)
   /\ Get(Get(searchFilter).startTime) > Get(Get(searchFilter).endTime)) =>
    searchResult = <<>>

\* C28: searchMessages with limit 0 returns the empty array, whatever is
\* stored.
C28_LimitZeroIsEmpty ==
  (IsSome(searchFilter) /\ Get(searchFilter).limit = Some(0)) =>
    searchResult = <<>>

----------------------------------------------------------------------------
(* Searching by connection (SpecConnections). *)

\* C27: searchMessages with a connectionId returns only records of that
\* connection, also when the table holds records of another one.
C27_OnlyThatConnection ==
  (/\ IsSome(searchFilter)
   /\ IsSome(Get(searchFilter).connectionId)
   /\ Cardinality({rows[i].connection_id : i \in 1..Len(rows)}) > 1) =>
    \A k \in 1..Len(searchResult) :
      searchResult[k].connectionId = Get(Get(searchFilter).connectionId)

----------------------------------------------------------------------------
(* Export (SpecExport).  The reader of an export parses it with JSON.parse: *)
(* the text is cut into tokens and the tokens are read as an array of       *)
(* objects whose values are strings, numbers and booleans.                  *)

PunctToken(c) == [kind |-> "punct", str |-> <<c>>, num |-> 0, bool |-> FALSE]
StringToken(s) == [kind |-> "string", str |-> s, num |-> 0, bool |-> FALSE]
NumberToken(n) == [kind |-> "number", str |-> <<>>, num |-> n, bool |-> FALSE]
BooleanToken(b) == [kind |-> "boolean", str |-> <<>>, num |-> 0, bool |-> b]
ErrorToken == [kind |-> "error", str |-> <<>>, num |-> 0, bool |-> FALSE]

IsDigit(c) == \E d \in 1..10 : Digits[d] = c
DigitValue(c) == (CHOOSE d \in 1..10 : Digits[d] = c) - 1

RECURSIVE StringEnd(_, _)
\* the index of the '"' that closes the string whose text starts at j; 0 if
\* none does
StringEnd(s, j) ==
  IF j > Len(s) THEN 0
  ELSE IF s[j] = "\\" THEN StringEnd(s, j + 2)
  ELSE IF s[j] = "\"" THEN j
  ELSE StringEnd(s, j + 1)

RECURSIVE Unescape(_)
\* the characters a string's text stands for
Unescape(s) ==
  IF s = <<>> THEN <<>>
  ELSE IF Head(s) = "\\" /\ Len(s) >= 2
       THEN <<s[2]>> \o Unescape(SubSeq(s, 3, Len(s)))
       ELSE <<Head(s)>> \o Unescape(Tail(s))

RECURSIVE NumberEnd(_, _)
\* the index of the last digit of the number that starts at j
NumberEnd(s, j) ==
  IF j + 1 <= Len(s) /\ IsDigit(s[j + 1]) THEN NumberEnd(s, j + 1) ELSE j

RECURSIVE ParseInt(_)
ParseInt(ds) ==
  IF ds = <<>> THEN 0
  ELSE ParseInt(SubSeq(ds, 1, Len(ds) - 1)) * 10 + DigitValue(ds[Len(ds)])

StartsAt(s, i, word) ==
  i + Len(word) - 1 <= Len(s) /\ SubSeq(s, i, i + Len(word) - 1) = word

RECURSIVE Tokens(_, _)
\* the tokens of a line of JSON text from index i on; an error token ends
\* them where the text is no JSON
Tokens(s, i) ==
  IF i > Len(s) THEN <<>>
  ELSE IF s[i] = " " \/ s[i] = "\n" THEN Tokens(s, i + 1)
  ELSE IF s[i] \in {"[", "]", "{", "}", ",", ":"}
       THEN <<PunctToken(s[i])>> \o Tokens(s, i + 1)
  ELSE IF s[i] = "\""
       THEN LET end == StringEnd(s, i + 1) IN
            IF end = 0 THEN <<ErrorToken>>
            ELSE <<StringToken(Unescape(SubSeq(s, i + 1, end - 1)))>>
                   \o Tokens(s, end + 1)
  ELSE IF IsDigit(s[i])
       THEN LET end == NumberEnd(s, i) IN
            <<NumberToken(ParseInt(SubSeq(s, i, end)))>> \o Tokens(s, end + 1)
  ELSE IF StartsAt(s, i, JsonBoolean(TRUE))
       THEN <<BooleanToken(TRUE)>> \o Tokens(s, i + 4)
  ELSE IF StartsAt(s, i, JsonBoolean(FALSE))
       THEN <<BooleanToken(FALSE)>> \o Tokens(s, i + 5)
  ELSE <<ErrorToken>>

\* the lines of a text (a JSON string holds no line break, so no token
\* goes over the end of a line)
Lines(s) ==
  LET breaks == {i \in 1..Len(s) : s[i] = "\n"}
      n == Cardinality(breaks)
      at(k) == IF k = 0 THEN 0
               ELSE IF k = n + 1 THEN Len(s) + 1
               ELSE CHOOSE p \in breaks : Cardinality({q \in breaks : q < p}) = k - 1
  IN [k \in 1..(n + 1) |-> SubSeq(s, at(k - 1) + 1, at(k) - 1)]

ParseFailed == [ok |-> FALSE, members |-> <<>>, next |-> 0]

RECURSIVE ParseMembers(_, _, _)
\* the members of an object from token i on, up to its '}'
ParseMembers(toks, i, acc) ==
  IF i + 3 > Len(toks) THEN ParseFailed
  ELSE IF /\ toks[i].kind = "string"
          /\ toks[i + 1] = PunctToken(":")
          /\ toks[i + 2].kind \in {"string", "number", "boolean"}
       THEN LET more == Append(acc, [key |-> toks[i].str, value |-> toks[i + 2]]) IN
            IF toks[i + 3] = PunctToken(",") THEN ParseMembers(toks, i + 4, more)
            ELSE IF toks[i + 3] = PunctToken("}")
                 THEN [ok |-> TRUE, members |-> more, next |-> i + 4]
                 ELSE ParseFailed
  ELSE ParseFailed

RECURSIVE ParseElements(_, _, _)
\* the objects of an array from token i on, up to its ']', which ends the text
ParseElements(toks, i, acc) ==
  IF i > Len(toks) \/ toks[i] # PunctToken("{") THEN None
  ELSE LET object == ParseMembers(toks, i + 1, <<>>) IN
       IF ~object.ok \/ object.next > Len(toks) THEN None
       ELSE IF toks[object.next] = PunctToken(",")
            THEN ParseElements(toks, object.next + 1, Append(acc, object.members))
       ELSE IF toks[object.next] = PunctToken("]") /\ object.next = Len(toks)
            THEN Some(Append(acc, object.members))
       ELSE None

\* JSON.parse(text), for an array of objects: None when it throws
JsonParse(text) ==
  LET lines == Lines(text)
      toks == Concat([k \in 1..Len(lines) |-> Tokens(lines[k], 1)])
  IN
  IF Len(toks) < 2 \/ toks[1] # PunctToken("[") THEN None
  ELSE IF toks[2] = PunctToken("]")
       THEN (IF Len(toks) = 2 THEN Some(<<>>) ELSE None)
       ELSE ParseElements(toks, 2, <<>>)

\* object[key], an error token when the object has no such member
Member(object, key) ==
  IF \E k \in 1..Len(object) : object[k].key = key
  THEN object[CHOOSE k \in 1..Len(object) : object[k].key = key].value
  ELSE ErrorToken

\* a parsed object has the topic, qos, retained and timestamp of a message
SameExported(object, msg) ==
  /\ Member(object, <<"t", "o", "p", "i", "c">>) = StringToken(msg.topic)
  /\ Member(object, <<"q", "o", "s">>) = NumberToken(msg.qos)
  /\ Member(object, <<"r", "e", "t", "a", "i", "n", "e", "d">>) = BooleanToken(msg.retained)
  /\ Member(object, <<"t", "i", "m", "e", "s", "t", "a", "m", "p">>) = NumberToken(msg.timestamp)

\* C29: the text exportAsJSON(filter) returns parses to an array that has,
\* record for record and in the same order, the topic, qos, retained and
\* timestamp of an array searchMessages(filter) returns on the same table.
C29_ExportRoundTrip ==
  IsSome(exported) =>
    LET parsed == JsonParse(Get(exported).text) IN
    /\ IsSome(parsed)
    /\ \E messages \in MessageHistory_searchMessages(rows, Get(exported).filter) :
         /\ Len(Get(parsed)) = Len(messages)
         /\ \A k \in 1..Len(messages) : SameExported(Get(parsed)[k], messages[k])

\* C29's case: of two stored messages the export under a topic filter holds
\* the one whose topic has a '"' in it, retained, and not the other
C29_Witness ==
  /\ IsSome(exported)
  /\ Get(exported).filter.topic = Some(TopicQuote)
  /\ Len(rows) = 2
  /\ IsSome(JsonParse(Get(exported).text))
  /\ Len(Get(JsonParse(Get(exported).text))) = 1
  /\ Member(Get(JsonParse(Get(exported).text))[1], <<"t", "o", "p", "i", "c">>)
       = StringToken(TopicQuote)
  /\ Member(Get(JsonParse(Get(exported).text))[1], <<"r", "e", "t", "a", "i", "n", "e", "d">>)
       = BooleanToken(TRUE)

----------------------------------------------------------------------------
(* Replay (SpecReplay). *)

\* C30: once pauseReplay or stopReplay has been called, by the user or by
\* publishMessage after a failed publish, no message is published and no
\* timeout is scheduled until startReplay is called again, also when a
\* publish was in flight at the call.
C30_NothingAfterHalt ==
  replay.halted => ~replay.publishedAfterHalt /\ ~replay.scheduledAfterHalt

====
